---- MODULE Spec2Model ----
(***************************************************************************)
(* Model of extension/textext/utility.py: the directory scoping helpers,   *)
(* the nested logging guard, the cyclic log buffer, the JSON settings      *)
(* store and exec_command.  The utilities are independent, so each one has *)
(* its own specification over its own variables; the variables of the      *)
(* other utilities stay at their initial values.                           *)
(***************************************************************************)
EXTENDS Integers, Sequences, FiniteSets, TLC

VARIABLES
    ex_call,      \* exec_command: the arguments and process behaviour of the last call
    ex_res,       \* exec_command: the outcome of the last call (return or raise)
    cb_capacity,  \* CycleBufferHandler.capacity
    cb_buffer,    \* CycleBufferHandler.buffer
    cb_emitted,   \* history: the records emitted since the last flush
    lg_indent,    \* TexTextNestedLoggingGuard._message_current_indent (class attribute)
    lg_stack,     \* the guards of the open `with logger.<level>(msg):` scopes, innermost last
    lg_raising,   \* an exception is propagating out of a logging scope
    lg_last,      \* the last call of self._logger.log: level and text
    lg_ev,        \* history: the operation that made the last call of self._logger.log
    fs_dirs,      \* the directories that exist
    fs_cwd,       \* the working directory of the process
    fs_objs,      \* the ChangeDirectory object the caller holds in a variable, if any
    fs_stack,     \* the open directory scopes, innermost last: what their __exit__ will read
    fs_raising,   \* an exception is propagating out of a directory scope
    fs_ev,        \* history: the last step of a directory scope
    st_file,      \* the files of the settings directory, by basename
    st_alive,     \* a store object has been constructed
    st_path,      \* Settings.config_path of the store object
    st_sets,      \* history: the number of __setitem__ calls so far
    st_values,    \* Settings.values of the store object
    st_op,        \* history: the last operation on the store
    st_out,       \* history: what the last operation returned or raised
    st_saved      \* history: the map the last completed save() wrote

vars == <<ex_call, ex_res, cb_capacity, cb_buffer, cb_emitted,
          lg_indent, lg_stack, lg_raising, lg_last, lg_ev,
          fs_dirs, fs_cwd, fs_objs, fs_stack, fs_raising, fs_ev,
          st_file, st_alive, st_path, st_sets, st_values, st_op, st_out, st_saved>>

exVars == <<ex_call, ex_res>>
cbVars == <<cb_capacity, cb_buffer, cb_emitted>>
lgVars == <<lg_indent, lg_stack, lg_raising, lg_last, lg_ev>>
fsVars == <<fs_dirs, fs_cwd, fs_objs, fs_stack, fs_raising, fs_ev>>
stVars == <<st_file, st_alive, st_path, st_sets, st_values, st_op, st_out, st_saved>>

-----------------------------------------------------------------------------
(* Bounds of the model.                                                    *)

\* largest capacity a CycleBufferHandler is constructed with
MaxCapacity == 3
\* largest number of records emitted between two flushes
MaxEmits == 4
\* largest exit code (and largest ok_return_value) of a command
MaxCode == 2
\* deepest nesting of logging scopes
MaxDepth == 3
\* deepest nesting of directory scopes
MaxNest == 2

\* the largest number of __setitem__ calls
MaxSets == 2

-----------------------------------------------------------------------------
(* Python helpers.                                                         *)

Max(a, b) == IF a >= b THEN a ELSE b
Min(a, b) == IF a <= b THEN a ELSE b

\* seq[start:] of Python, start may be negative
PySliceFrom(seq, start) ==
    LET n == Len(seq)
        s == IF start < 0 THEN Max(n + start, 0) ELSE Min(start, n)
    IN  SubSeq(seq, s + 1, n)

\* None and an integer, as the value of an optional integer argument
None == [isNone |-> TRUE, v |-> 0]
Some(n) == [isNone |-> FALSE, v |-> n]

-----------------------------------------------------------------------------
(* exec_command                                                            *)

\* the byte strings a process writes to a pipe
Outputs == {<<>>, <<"o">>, <<"e", "e">>}
\* exit codes; a negative code is a process killed by a signal
ExitCodes == (0 - 1) .. MaxCode
OkValues == {None} \cup {Some(n) : n \in 0 .. MaxCode}
DefaultOk == Some(0)

\* the exception objects exec_command builds
TexTextCommandNotFound == [kind |-> "TexTextCommandNotFound"]
TexTextCommandFailed(return_code, stdout, stderr) ==
    [kind |-> "TexTextCommandFailed", return_code |-> return_code,
     stdout |-> stdout, stderr |-> stderr]
Returned(value) == [kind |-> "return", value |-> value]
NotCalled == [kind |-> "none"]

\* exec_command comparing the exit code with > instead of !=
exec_command_greater(ok_return_value, launched, returncode, out, err) ==
    IF ~launched
    THEN TexTextCommandNotFound
    ELSE IF ~ok_return_value.isNone /\ returncode > ok_return_value.v
         THEN TexTextCommandFailed(returncode, out, err)
         ELSE Returned(out \o err)

\* exec_command catching OSError only when a return value is expected
exec_command_oserror(ok_return_value, launched, returncode, out, err) ==
    IF ~launched /\ ~ok_return_value.isNone
    THEN TexTextCommandNotFound
    ELSE IF ~ok_return_value.isNone /\ returncode # ok_return_value.v
         THEN TexTextCommandFailed(returncode, out, err)
         ELSE Returned(out \o err)

\* exec_command returning stdout alone
exec_command_stdout(ok_return_value, launched, returncode, out, err) ==
    IF ~launched
    THEN TexTextCommandNotFound
    ELSE IF ~ok_return_value.isNone /\ returncode # ok_return_value.v
         THEN TexTextCommandFailed(returncode, out, err)
         ELSE Returned(out)

\* exec_command(cmd, ok_return_value): launched is FALSE when Popen or
\* communicate raises OSError; returncode, out and err are what the process did
exec_command(ok_return_value, launched, returncode, out, err) ==
    IF ~launched
    THEN TexTextCommandNotFound
    ELSE IF ~ok_return_value.isNone /\ returncode # ok_return_value.v
         THEN TexTextCommandFailed(returncode, out, err)
         ELSE Returned(out \o err)

ExInit ==
    /\ ex_call = [ok |-> DefaultOk, launched |-> FALSE, returncode |-> 0,
                  out |-> <<>>, err |-> <<>>]
    /\ ex_res = NotCalled

ExecCommand ==
    \E ok \in OkValues, launched \in BOOLEAN, rc \in ExitCodes,
       out \in Outputs, err \in Outputs :
        /\ ex_call' = [ok |-> ok, launched |-> launched, returncode |-> rc,
                       out |-> out, err |-> err]
        /\ ex_res' = exec_command(ok, launched, rc, out, err)
        /\ UNCHANGED <<cbVars, lgVars, fsVars, stVars>>

-----------------------------------------------------------------------------
(* CycleBufferHandler                                                      *)

Records == {"r1", "r2"}

\* BufferingHandler.__init__(capacity): an empty buffer
CbInit ==
    /\ cb_capacity \in 0 .. MaxCapacity
    /\ cb_buffer = <<>>
    /\ cb_emitted = <<>>

CbIdle ==
    /\ cb_capacity = 0
    /\ cb_buffer = <<>>
    /\ cb_emitted = <<>>

\* CycleBufferHandler.emit: the buffer after emit(record)
emit(buffer, capacity, record) ==
    LET appended == Append(buffer, record)
    IN  IF Len(appended) > capacity
        THEN PySliceFrom(appended, 0 - capacity)
        ELSE appended

Emit ==
    \E record \in Records :
        /\ Len(cb_emitted) < MaxEmits
        /\ cb_buffer' = emit(cb_buffer, cb_capacity, record)
        /\ cb_emitted' = Append(cb_emitted, record)
        /\ UNCHANGED <<cb_capacity, exVars, lgVars, fsVars, stVars>>

\* BufferingHandler.flush, as called by show_messages
Flush ==
    /\ cb_buffer' = <<>>
    /\ cb_emitted' = <<>>
    /\ UNCHANGED <<cb_capacity, exVars, lgVars, fsVars, stVars>>

-----------------------------------------------------------------------------
(* TexTextNestedLoggingGuard                                               *)

_MESSAGE_INDENT == 2

Levels == {"DEBUG", "ERROR"}

\* " " * n
Spaces(n) == [i \in 1 .. n |-> " "]

\* the characters str.strip() removes that a string literal can only hold
\* as the character itself: vertical tab U+000B, the separators U+001C to
\* U+001F, next line U+0085, no-break space U+00A0
VT == ""
FS == ""
GS == ""
RS == ""
US == ""
NEL == ""
NBSP == " "

\* the characters str.strip() removes, as far as a string here can hold them
\* (Python also strips the spaces above U+00FF: U+1680, U+2000 to U+200A,
\* U+2028, U+2029, U+202F, U+205F, U+3000)
Whitespace == {" ", "\t", "\n", "\r", "\f", VT, FS, GS, RS, US, NEL, NBSP}

IsSpace(c) == c \in Whitespace

\* the header messages of the scopes and the messages logged inside them
Messages ==
    {<<"a">>, <<" ", "a">>, <<"b", " ">>, <<"\t", "a", "\n">>, <<VT, "a", NBSP>>}

RECURSIVE LStrip(_)
LStrip(s) == IF s # <<>> /\ IsSpace(Head(s)) THEN LStrip(Tail(s)) ELSE s

RECURSIVE RStrip(_)
RStrip(s) ==
    IF s # <<>> /\ IsSpace(s[Len(s)]) THEN RStrip(SubSeq(s, 1, Len(s) - 1)) ELSE s

\* str.strip()
Strip(s) == RStrip(LStrip(s))

\* the text __init__ hands to self._logger.log
InitText(indent, message) == Spaces(indent) \o message

\* _message_current_indent after __enter__
EnterIndent(indent) == indent + _MESSAGE_INDENT

\* _message_current_indent after __exit__
ExitIndent(indent) == indent - _MESSAGE_INDENT

\* result in __exit__
ExitResult(exc) == IF ~exc THEN <<"d", "o", "n", "e">> ELSE <<"f", "a", "i", "l", "e", "d">>

\* __exit__ logging before it takes the indentation back
ExitText_early(indent, message, exc) ==
    Spaces(indent) \o Strip(message) \o <<" ">> \o ExitResult(exc)

\* the text __exit__ hands to self._logger.log; indent is the counter before __exit__
ExitText(indent, message, exc) ==
    Spaces(ExitIndent(indent)) \o Strip(message) \o <<" ">> \o ExitResult(exc)

NoLog == [lvl |-> "NONE", text |-> <<>>]
NoEvent == [kind |-> "none", message |-> <<>>, at |-> 0, exc |-> FALSE]

LgInit ==
    /\ lg_indent = 0
    /\ lg_stack = <<>>
    /\ lg_raising = FALSE
    /\ lg_last = NoLog
    /\ lg_ev = NoEvent

\* logger.<level>(message) outside a with statement: log() builds a guard,
\* whose __init__ logs the message
LogMessage ==
    \E lvl \in Levels, message \in Messages :
        /\ ~lg_raising
        /\ lg_last' = [lvl |-> lvl, text |-> InitText(lg_indent, message)]
        /\ lg_ev' = [kind |-> "message", message |-> message, at |-> 0, exc |-> FALSE]
        /\ UNCHANGED <<lg_indent, lg_stack, lg_raising, exVars, cbVars, fsVars, stVars>>

\* `with logger.<level>(message):` is entered: __init__ logs the header,
\* then __enter__ adds the indentation
OpenScope ==
    \E lvl \in Levels, message \in Messages :
        /\ ~lg_raising
        /\ Len(lg_stack) < MaxDepth
        /\ lg_last' = [lvl |-> lvl, text |-> InitText(lg_indent, message)]
        /\ lg_indent' = EnterIndent(lg_indent)
        /\ lg_stack' = Append(lg_stack,
                [lvl |-> lvl, message |-> message, header_indent |-> lg_indent])
        /\ lg_ev' = [kind |-> "open", message |-> message, at |-> 0, exc |-> FALSE]
        /\ UNCHANGED <<lg_raising, exVars, cbVars, fsVars, stVars>>

\* the block of the innermost scope raises
BlockRaises ==
    /\ ~lg_raising
    /\ lg_stack # <<>>
    /\ lg_raising' = TRUE
    /\ UNCHANGED <<lg_indent, lg_stack, lg_last, lg_ev, exVars, cbVars, fsVars, stVars>>

\* the innermost scope is left: __exit__, with exc_type set when an exception
\* is propagating; __exit__ returns None, so the exception keeps propagating
CloseScope ==
    /\ lg_stack # <<>>
    /\ LET guard == lg_stack[Len(lg_stack)]
       IN  /\ lg_indent' = ExitIndent(lg_indent)
           /\ lg_last' = [lvl |-> guard.lvl,
                          text |-> ExitText(lg_indent, guard.message, lg_raising)]
           /\ lg_ev' = [kind |-> "close", message |-> guard.message,
                        at |-> guard.header_indent, exc |-> lg_raising]
    /\ lg_stack' = SubSeq(lg_stack, 1, Len(lg_stack) - 1)
    /\ UNCHANGED <<lg_raising, exVars, cbVars, fsVars, stVars>>

\* the caller's try/except catches the propagating exception
CatchException ==
    /\ lg_raising
    /\ lg_raising' = FALSE
    /\ UNCHANGED <<lg_indent, lg_stack, lg_last, lg_ev, exVars, cbVars, fsVars, stVars>>

-----------------------------------------------------------------------------
(* ChangeDirectory, TemporaryDirectory, ChangeToTemporaryDirectory         *)

\* directories that exist throughout
PermDirs == {"/a", "/b"}
\* the names tempfile.mkdtemp("textext_") can return
TempNames == {"/tmp/tmp1textext_", "/tmp/tmp2textext_"}
AllDirs == PermDirs \cup TempNames

NoScope == [kind |-> "none", dir_name |-> "None", old_dir |-> "/a",
            entry_cwd |-> "/a", phase |-> "none"]
NoStep == [kind |-> "none", scope |-> NoScope, cwd_before |-> "/a",
           dirs_before |-> PermDirs]

\* a step that is not the entry or exit of a scope
OtherStep == [NoStep EXCEPT !.kind = "other"]

FsInit ==
    /\ fs_dirs = PermDirs
    /\ fs_cwd \in PermDirs
    /\ fs_objs = {}
    /\ fs_stack = <<>>
    /\ fs_raising = FALSE
    /\ fs_ev = NoStep

FsIdle ==
    /\ fs_dirs = PermDirs
    /\ fs_cwd = "/a"
    /\ fs_objs = {}
    /\ fs_stack = <<>>
    /\ fs_raising = FALSE
    /\ fs_ev = NoStep

\* the working directory after its directory has been removed: os.getcwd()
\* raises FileNotFoundError until the process changes directory again
NoCwd == "(removed)"

\* the code between scope steps may run: no exception is propagating and no
\* ChangeToTemporaryDirectory is half way through its entry or exit
FsRunning ==
    /\ ~fs_raising
    /\ fs_stack # <<>> => fs_stack[Len(fs_stack)].phase = "in"

FsTop == fs_stack[Len(fs_stack)]
FsPop == SubSeq(fs_stack, 1, Len(fs_stack) - 1)

\* os.chdir(dir) succeeds when dir exists, else raises OSError
ChdirOk(dir) == dir \in fs_dirs
ChdirCwd(dir) == IF ChdirOk(dir) THEN dir ELSE fs_cwd

\* os.path.abspath(os.path.curdir) succeeds when the working directory
\* exists, else os.getcwd() raises FileNotFoundError
AbspathOk(cwd) == cwd # NoCwd

\* shutil.rmtree(dir): the working directory afterwards (POSIX: a directory
\* can be removed while it is the working directory)
RmtreeCwd(dir) == IF fs_cwd = dir THEN NoCwd ELSE fs_cwd

\* ChangeDirectory.__init__ remembering the target instead of the current directory
ChangeDirectoryInit_target(dir, cwd) == [new_dir |-> dir, old_dir |-> dir]

\* ChangeDirectory.__init__(dir)
ChangeDirectoryInit(dir, cwd) == [new_dir |-> dir, old_dir |-> cwd]

\* the caller's own os.chdir(dir), outside or inside a scoped block
Chdir ==
    \E dir \in fs_dirs :
        /\ FsRunning
        /\ dir # fs_cwd
        /\ fs_cwd' = dir
        /\ fs_ev' = OtherStep
        /\ UNCHANGED <<fs_dirs, fs_objs, fs_stack, fs_raising,
                       exVars, cbVars, lgVars, stVars>>

\* obj = ChangeDirectory(dir); the variable obj is bound anew, unless
\* __init__ raises because the working directory is gone
NewChangeDirectory ==
    \E dir \in AllDirs :
        /\ FsRunning
        /\ fs_objs' = IF AbspathOk(fs_cwd)
                      THEN {ChangeDirectoryInit(dir, fs_cwd)} ELSE fs_objs
        /\ fs_raising' = ~AbspathOk(fs_cwd)
        /\ fs_ev' = OtherStep
        /\ UNCHANGED <<fs_dirs, fs_cwd, fs_stack, exVars, cbVars, lgVars, stVars>>

\* `with obj:` is entered: ChangeDirectory.__enter__; when os.chdir raises,
\* the block is not entered and the OSError propagates
EnterChangeDirectory ==
    \E obj \in fs_objs :
        /\ FsRunning
        /\ Len(fs_stack) < MaxNest
        /\ fs_cwd' = ChdirCwd(obj.new_dir)
        /\ LET scope == [kind |-> "cd", dir_name |-> "None",
                         old_dir |-> obj.old_dir, entry_cwd |-> fs_cwd,
                         phase |-> "in"]
           IN  /\ fs_stack' = IF ChdirOk(obj.new_dir)
                              THEN Append(fs_stack, scope) ELSE fs_stack
               /\ fs_ev' = [kind |-> "cd_enter", scope |-> scope,
                            cwd_before |-> fs_cwd, dirs_before |-> fs_dirs]
        /\ fs_raising' = ~ChdirOk(obj.new_dir)
        /\ UNCHANGED <<fs_dirs, fs_objs, exVars, cbVars, lgVars, stVars>>

\* the block of the innermost scope raises
FsBlockRaises ==
    /\ FsRunning
    /\ fs_stack # <<>>
    /\ fs_raising' = TRUE
    /\ fs_ev' = OtherStep
    /\ UNCHANGED <<fs_dirs, fs_cwd, fs_objs, fs_stack,
                   exVars, cbVars, lgVars, stVars>>

\* the caller's try/except catches the propagating exception
FsCatchException ==
    /\ fs_raising
    /\ fs_stack # <<>> => FsTop.phase = "in"
    /\ fs_raising' = FALSE
    /\ fs_ev' = OtherStep
    /\ UNCHANGED <<fs_dirs, fs_cwd, fs_objs, fs_stack,
                   exVars, cbVars, lgVars, stVars>>

\* the block of `with obj:` ends, normally or by an exception:
\* ChangeDirectory.__exit__; an OSError of os.chdir propagates
ExitChangeDirectory ==
    /\ fs_stack # <<>>
    /\ FsTop.kind = "cd"
    /\ fs_cwd' = ChdirCwd(FsTop.old_dir)
    /\ fs_raising' = (fs_raising \/ ~ChdirOk(FsTop.old_dir))
    /\ fs_stack' = FsPop
    /\ fs_ev' = [kind |-> "cd_exit", scope |-> FsTop,
                 cwd_before |-> fs_cwd, dirs_before |-> fs_dirs]
    /\ UNCHANGED <<fs_dirs, fs_objs, exVars, cbVars, lgVars, stVars>>

\* TemporaryDirectory.__enter__ creates a directory. It is called by
\* `with TemporaryDirectory():` (kind "td"), whose block runs next, and by
\* `with ChangeToTemporaryDirectory():` (kind "tmp"), which goes on to
\* ChangeDirectory(temp_dir)
TempEnterCreate ==
    \E name \in TempNames \ fs_dirs, kind \in {"td", "tmp"} :
        /\ FsRunning
        /\ Len(fs_stack) < MaxNest
        /\ fs_dirs' = fs_dirs \cup {name}
        /\ LET scope == [kind |-> kind, dir_name |-> name, old_dir |-> "None",
                         entry_cwd |-> IF kind = "tmp" THEN fs_cwd ELSE "None",
                         phase |-> IF kind = "tmp" THEN "created" ELSE "in"]
           IN  /\ fs_stack' = Append(fs_stack, scope)
               /\ fs_ev' = [kind |-> "create", scope |-> scope,
                            cwd_before |-> fs_cwd, dirs_before |-> fs_dirs]
        /\ UNCHANGED <<fs_cwd, fs_objs, fs_raising, exVars, cbVars, lgVars, stVars>>

\* second half of the entry of ChangeToTemporaryDirectory:
\* ChangeDirectory(temp_dir) is constructed and entered, then the generator
\* yields to the block; when the constructor raises, the block does not run
\* and TemporaryDirectory.__exit__ is what remains
TempEnterChdir ==
    /\ fs_stack # <<>>
    /\ FsTop.kind = "tmp" /\ FsTop.phase = "created"
    /\ LET cd == ChangeDirectoryInit(FsTop.dir_name, fs_cwd)
           scope == IF AbspathOk(fs_cwd)
                    THEN [FsTop EXCEPT !.old_dir = cd.old_dir, !.phase = "in"]
                    ELSE [FsTop EXCEPT !.phase = "closing"]
       IN  /\ fs_cwd' = IF AbspathOk(fs_cwd) THEN ChdirCwd(cd.new_dir) ELSE fs_cwd
           /\ fs_stack' = Append(FsPop, scope)
           /\ fs_ev' = [kind |-> IF AbspathOk(fs_cwd) THEN "tmp_chdir"
                                                      ELSE "tmp_enter_raised",
                        scope |-> scope,
                        cwd_before |-> fs_cwd, dirs_before |-> fs_dirs]
    /\ fs_raising' = ~AbspathOk(fs_cwd)
    /\ UNCHANGED <<fs_dirs, fs_objs, exVars, cbVars, lgVars, stVars>>

\* the block of `with ChangeToTemporaryDirectory():` ends, normally or by an
\* exception thrown into the generator, first half: ChangeDirectory.__exit__
TempExitChdir ==
    /\ fs_stack # <<>>
    /\ FsTop.kind = "tmp" /\ FsTop.phase = "in"
    /\ fs_cwd' = ChdirCwd(FsTop.old_dir)
    /\ fs_raising' = (fs_raising \/ ~ChdirOk(FsTop.old_dir))
    /\ LET scope == [FsTop EXCEPT !.phase = "closing"]
       IN  /\ fs_stack' = Append(FsPop, scope)
           /\ fs_ev' = [kind |-> "tmp_restore", scope |-> scope,
                        cwd_before |-> fs_cwd, dirs_before |-> fs_dirs]
    /\ UNCHANGED <<fs_dirs, fs_objs, exVars, cbVars, lgVars, stVars>>

\* TemporaryDirectory.__exit__ removes the directory: when the block of
\* `with TemporaryDirectory():` ends, normally or by an exception, and as the
\* second half of the exit of ChangeToTemporaryDirectory
TempExitRemove ==
    /\ fs_stack # <<>>
    /\ \/ FsTop.kind = "td"
       \/ FsTop.kind = "tmp" /\ FsTop.phase = "closing"
    /\ fs_dirs' = fs_dirs \ {FsTop.dir_name}
    /\ fs_cwd' = RmtreeCwd(FsTop.dir_name)
    /\ fs_stack' = FsPop
    /\ fs_ev' = [kind |-> "remove", scope |-> FsTop,
                 cwd_before |-> fs_cwd, dirs_before |-> fs_dirs]
    /\ UNCHANGED <<fs_objs, fs_raising, exVars, cbVars, lgVars, stVars>>

-----------------------------------------------------------------------------
(* Settings, Cache                                                         *)

\* Python values: None, the string "a", the empty tuple and the empty list
PyNone == [t |-> "NoneType", x |-> "null"]
PyStrA == [t |-> "str", x |-> "a"]
PyTuple == [t |-> "tuple", x |-> "()"]
PyList == [t |-> "list", x |-> "[]"]

\* the values a caller stores
Values == {PyStrA, PyTuple}

\* Python keys: the strings "1" and "2" and the integer 1
KeyStr1 == [t |-> "str", x |-> "1"]
KeyStr2 == [t |-> "str", x |-> "2"]
KeyInt1 == [t |-> "int", x |-> "1"]
Keys == {KeyStr1, KeyStr2, KeyInt1}

\* What self.values holds: a dict, the sequence of its items in insertion
\* order with distinct keys, or, after a JSON array was loaded, a list.
Dict(items) == [t |-> "dict", items |-> items]
EmptyDict == Dict(<<>>)
EmptyList == [t |-> "list", items |-> <<>>]
Item(k, v) == [k |-> k, v |-> v]
DictKeys(d) == {d.items[i].k : i \in 1 .. Len(d.items)}
DictIndex(d, k) == CHOOSE i \in 1 .. Len(d.items) : d.items[i].k = k

\* dict.get(key, default)
DictGet(d, key, default) ==
    IF key \in DictKeys(d) THEN d.items[DictIndex(d, key)].v ELSE default

\* d[key] = value
DictSet(d, key, value) ==
    IF key \in DictKeys(d)
    THEN [d EXCEPT !.items[DictIndex(d, key)].v = value]
    ELSE [d EXCEPT !.items = Append(@, Item(key, value))]

\* the key json.dump writes for a dict key: an integer becomes its decimal string
JsonKey(k) == [t |-> "str", x |-> k.x]

\* the value json.load reads for a value json.dump wrote: a tuple is written
\* as an array and read as a list
JsonValue(v) == IF v = PyTuple THEN PyList ELSE v

\* json.dump(values) followed by parsing the text: the document in the file;
\* for a dict the members of the JSON object in the text, in order, where two
\* keys with the same JSON key give two members
JsonDump(values) ==
    [values EXCEPT !.items =
        [i \in 1 .. Len(values.items) |->
            Item(JsonKey(values.items[i].k), JsonValue(values.items[i].v))]]

\* json.load of a JSON object: a later member with the same key replaces the value
RECURSIVE JsonLoadInto(_, _)
JsonLoadInto(d, items) ==
    IF items = <<>> THEN d
    ELSE JsonLoadInto(DictSet(d, Head(items).k, Head(items).v), Tail(items))

\* json.load of a document: a dict for a JSON object, a list for a JSON array
JsonLoad(doc) ==
    IF doc.t = "dict" THEN JsonLoadInto(EmptyDict, doc.items) ELSE EmptyList

\* a file of the settings directory:
\*   nodir     the directory does not exist
\*   missing   the directory exists, the file does not
\*   corrupt   text that is not JSON
\*   noaccess  a file that open() refuses for reading and for writing
\*   readonly  a JSON document that open() refuses for writing
\*   json      a JSON document
NoDir == [kind |-> "nodir", doc |-> EmptyDict]
Missing == [kind |-> "missing", doc |-> EmptyDict]
Corrupt == [kind |-> "corrupt", doc |-> EmptyDict]
NoAccess == [kind |-> "noaccess", doc |-> EmptyDict]
ReadOnly(doc) == [kind |-> "readonly", doc |-> doc]
JsonFile(doc) == [kind |-> "json", doc |-> doc]
InitialDoc == Dict(<<Item(KeyStr1, PyNone), Item(KeyStr2, PyList)>>)
InitialFiles ==
    {Missing, Corrupt, NoAccess, JsonFile(EmptyList),
     ReadOnly(InitialDoc), JsonFile(InitialDoc)}

\* the default basename of Settings and of Cache
SettingsBasename == "config.json"
CacheBasename == ".cache.json"
Basenames == {SettingsBasename, CacheBasename}

\* the settings directory at the start: absent, or holding any of the files
InitialDirs == {[b \in Basenames |-> NoDir]} \cup [Basenames -> InitialFiles]

\* a constructor called without a basename
NoArg == "(default)"

\* Settings.config_path: the directory is fixed, so the basename names the file
config_path(arg, default) == IF arg = NoArg THEN default ELSE arg
NoPath == "None"

\* os.path.isfile(self.config_path)
IsFile(file) == file.kind \notin {"nodir", "missing"}

Return(value) == [kind |-> "return", value |-> value, exc |-> "none"]
Raise(exc) == [kind |-> "raise", value |-> PyNone, exc |-> exc]
Outcome(exc, value) == IF exc = "none" THEN Return(value) ELSE Raise(exc)

\* Settings.load: the exception it raises, "none" when none
LoadRaises(file) ==
    IF ~IsFile(file) THEN "none"
    ELSE IF file.kind = "noaccess" THEN "IOError"
    ELSE IF file.kind = "corrupt" THEN "ValueError"
    ELSE "none"

\* Settings.load updating the map with the file instead of replacing it
load_update(values, file) ==
    IF IsFile(file) /\ LoadRaises(file) = "none"
    THEN IF file.doc.t = "dict" /\ values.t = "dict"
         THEN JsonLoadInto(values, file.doc.items) ELSE JsonLoad(file.doc)
    ELSE values

\* Settings.load: self.values afterwards
load(values, file) ==
    IF IsFile(file) /\ LoadRaises(file) = "none" THEN JsonLoad(file.doc) ELSE values

\* Settings.save: the exception open(self.config_path, "w") raises, "none" when none
SaveRaises(file) ==
    IF file.kind \in {"nodir", "noaccess", "readonly"} THEN "IOError" ELSE "none"

\* Settings.save: the file afterwards
save(values, file) ==
    IF SaveRaises(file) = "none" THEN JsonFile(JsonDump(values)) ELSE file

\* self.values.get on a list: the exception it raises, "none" for a dict
GetRaises(values) == IF values.t = "dict" THEN "none" ELSE "AttributeError"

\* Settings.get testing the truth of the result instead of `is None`
get_falsy(values, key, default) ==
    LET result == DictGet(values, key, default)
    IN  IF result \in {PyNone, PyTuple, PyList} THEN default ELSE result

\* Settings.get(key, default)
get(values, key, default) ==
    LET result == DictGet(values, key, default)
    IN  IF result = PyNone THEN default ELSE result

\* Settings.__getitem__(key)
getitem(values, key) == DictGet(values, key, PyNone)

\* self.values[key] = value on the empty list: the exception it raises,
\* "none" for a dict
SetItemRaises(values, key) ==
    IF values.t = "dict" THEN "none"
    ELSE IF key.t = "int" THEN "IndexError" ELSE "TypeError"

\* Settings.__setitem__(key, value): self.values afterwards
setitem(values, key, value) ==
    IF SetItemRaises(values, key) = "none" THEN DictSet(values, key, value) ELSE values

\* Settings.__init__: the exception it raises, "none" when none
SettingsInitRaises(file) ==
    IF LoadRaises(file) = "ValueError" THEN "TexTextFatalError" ELSE LoadRaises(file)

\* Cache.__init__: the exception it raises, "none" when none
CacheInitRaises(file) ==
    IF SettingsInitRaises(file) = "TexTextFatalError" THEN "none"
    ELSE SettingsInitRaises(file)

NoOp == [kind |-> "none", path |-> NoPath]
NoSave == [done |-> FALSE, path |-> NoPath, values |-> EmptyDict]

StInit ==
    /\ st_file \in InitialDirs
    /\ st_alive = FALSE
    /\ st_path = NoPath
    /\ st_sets = 0
    /\ st_values = EmptyDict
    /\ st_op = NoOp
    /\ st_out = Return(PyNone)
    /\ st_saved = NoSave

StIdle ==
    /\ st_file = [b \in Basenames |-> Missing]
    /\ st_alive = FALSE
    /\ st_path = NoPath
    /\ st_sets = 0
    /\ st_values = EmptyDict
    /\ st_op = NoOp
    /\ st_out = Return(PyNone)
    /\ st_saved = NoSave

\* s = Settings() or s = Settings(basename): self.values = {}, config_path is
\* set, then load(); a ValueError becomes TexTextFatalError; when __init__
\* raises, s stays bound to the object it had, if any
NewSettings ==
    \E arg \in Basenames \cup {NoArg} :
        LET path == config_path(arg, SettingsBasename)
            exc == SettingsInitRaises(st_file[path])
        IN  /\ st_alive' = (st_alive \/ exc = "none")
            /\ st_path' = IF exc = "none" THEN path ELSE st_path
            /\ st_values' = IF exc = "none"
                            THEN load(EmptyDict, st_file[path]) ELSE st_values
            /\ st_out' = Outcome(exc, PyNone)
            /\ st_op' = [kind |-> "Settings", path |-> path]
            /\ UNCHANGED <<st_file, st_sets, st_saved, exVars, cbVars, lgVars, fsVars>>

\* s = Cache() or s = Cache(basename): Settings.__init__ with
\* TexTextFatalError suppressed
NewCache ==
    \E arg \in Basenames \cup {NoArg} :
        LET path == config_path(arg, CacheBasename)
            exc == CacheInitRaises(st_file[path])
        IN  /\ st_alive' = (st_alive \/ exc = "none")
            /\ st_path' = IF exc = "none" THEN path ELSE st_path
            /\ st_values' = IF exc = "none"
                            THEN load(EmptyDict, st_file[path]) ELSE st_values
            /\ st_out' = Outcome(exc, PyNone)
            /\ st_op' = [kind |-> "Cache", path |-> path]
            /\ UNCHANGED <<st_file, st_sets, st_saved, exVars, cbVars, lgVars, fsVars>>

\* s.load()
Load ==
    /\ st_alive
    /\ st_values' = load(st_values, st_file[st_path])
    /\ st_out' = Outcome(LoadRaises(st_file[st_path]), PyNone)
    /\ st_op' = [kind |-> "load", path |-> st_path]
    /\ UNCHANGED <<st_file, st_alive, st_path, st_sets, st_saved,
                   exVars, cbVars, lgVars, fsVars>>

\* s.save()
Save ==
    /\ st_alive
    /\ st_file' = [st_file EXCEPT ![st_path] = save(st_values, st_file[st_path])]
    /\ st_out' = Outcome(SaveRaises(st_file[st_path]), PyNone)
    /\ st_saved' = IF SaveRaises(st_file[st_path]) = "none"
                   THEN [done |-> TRUE, path |-> st_path, values |-> st_values]
                   ELSE st_saved
    /\ st_op' = [kind |-> "save", path |-> st_path]
    /\ UNCHANGED <<st_alive, st_path, st_sets, st_values, exVars, cbVars, lgVars, fsVars>>

\* s.get(key, default)
Get ==
    \E key \in Keys, default \in {PyNone, PyStrA} :
        /\ st_alive
        /\ st_out' = Outcome(GetRaises(st_values), get(st_values, key, default))
        /\ st_op' = [kind |-> "get", path |-> st_path]
        /\ UNCHANGED <<st_file, st_alive, st_path, st_sets, st_values, st_saved,
                       exVars, cbVars, lgVars, fsVars>>

\* s[key]
GetItem ==
    \E key \in Keys :
        /\ st_alive
        /\ st_out' = Outcome(GetRaises(st_values), getitem(st_values, key))
        /\ st_op' = [kind |-> "getitem", path |-> st_path]
        /\ UNCHANGED <<st_file, st_alive, st_path, st_sets, st_values, st_saved,
                       exVars, cbVars, lgVars, fsVars>>

\* s[key] = value, up to MaxSets times
SetItem ==
    \E key \in Keys, value \in Values :
        /\ st_alive
        /\ st_sets < MaxSets
        /\ st_sets' = st_sets + 1
        /\ st_values' = setitem(st_values, key, value)
        /\ st_out' = Outcome(SetItemRaises(st_values, key), PyNone)
        /\ st_op' = [kind |-> "setitem", path |-> st_path]
        /\ UNCHANGED <<st_file, st_alive, st_path, st_saved,
                       exVars, cbVars, lgVars, fsVars>>

-----------------------------------------------------------------------------
NextExec == ExecCommand
InitExec == ExInit /\ CbIdle /\ LgInit /\ FsIdle /\ StIdle
SpecExec == InitExec /\ [][NextExec]_vars

NextBuffer == Emit \/ Flush
InitBuffer == CbInit /\ ExInit /\ LgInit /\ FsIdle /\ StIdle
SpecBuffer == InitBuffer /\ [][NextBuffer]_vars

NextLog == LogMessage \/ OpenScope \/ BlockRaises \/ CloseScope \/ CatchException
InitLog == LgInit /\ ExInit /\ CbIdle /\ FsIdle /\ StIdle
SpecLog == InitLog /\ [][NextLog]_vars

NextDir ==
    \/ Chdir \/ NewChangeDirectory \/ EnterChangeDirectory \/ ExitChangeDirectory
    \/ FsBlockRaises \/ FsCatchException
    \/ TempEnterCreate \/ TempEnterChdir \/ TempExitChdir \/ TempExitRemove
InitDir == FsInit /\ ExInit /\ CbIdle /\ LgInit /\ StIdle
SpecDir == InitDir /\ [][NextDir]_vars

NextStore == NewSettings \/ NewCache \/ Load \/ Save \/ Get \/ GetItem \/ SetItem
InitStore == StInit /\ ExInit /\ CbIdle /\ LgInit /\ FsIdle
SpecStore == InitStore /\ [][NextStore]_vars

-----------------------------------------------------------------------------
(* Properties of exec_command, checked under SpecExec.                     *)

ExCalled == ex_res # NotCalled
ExReturnsExpected ==
    ex_call.launched /\ (ex_call.ok.isNone \/ ex_call.returncode = ex_call.ok.v)

\* C3: with the default ok_return_value, a command that was launched and exits
\* with a non-zero code c makes exec_command raise TexTextCommandFailed with
\* return_code c and the captured stdout and stderr.
C3_FailedCarriesCode ==
    (ExCalled /\ ex_call.ok = DefaultOk /\ ex_call.launched /\ ex_call.returncode # 0)
        => /\ ex_res.kind = "TexTextCommandFailed"
           /\ ex_res.return_code = ex_call.returncode
           /\ ex_res.stdout = ex_call.out
           /\ ex_res.stderr = ex_call.err

C3_Witness ==
    /\ ExCalled /\ ex_call.ok = DefaultOk /\ ex_call.launched
    /\ ex_call.returncode < 0
    /\ ex_call.out # <<>> /\ ex_call.err # <<>> /\ ex_call.out # ex_call.err
    /\ ex_res.kind = "TexTextCommandFailed"

\* C4: when the executable cannot be launched, exec_command raises
\* TexTextCommandNotFound whatever ok_return_value is.
C4_NotFound ==
    (ExCalled /\ ~ex_call.launched) => ex_res.kind = "TexTextCommandNotFound"

C4_Witness ==
    /\ ExCalled /\ ~ex_call.launched /\ ex_call.ok.isNone
    /\ ex_res.kind = "TexTextCommandNotFound"

\* C8 as stated: exec_command returns iff the command launched and
\* ok_return_value is None or equals the exit code, the value being stdout
\* followed by stderr; and a non-zero exit code is a TexTextCommandFailed for
\* every ok_return_value, and exit code 0 never is.
C8_Original ==
    ExCalled =>
        /\ (ex_res.kind = "return") <=> ExReturnsExpected
        /\ ex_res.kind = "return" => ex_res.value = ex_call.out \o ex_call.err
        /\ (ex_call.launched /\ ex_call.returncode # 0)
                => ex_res.kind = "TexTextCommandFailed"
        /\ (ex_call.launched /\ ex_call.returncode = 0)
                => ex_res.kind # "TexTextCommandFailed"

\* C8 amended: exec_command returns iff the command launched and
\* ok_return_value is None or equals the exit code, the value being stdout
\* followed by stderr; a launched command whose exit code differs from a
\* non-None ok_return_value is a TexTextCommandFailed, whether the code is 0
\* or not, and with ok_return_value 0 these are exactly the non-zero codes.
C8_Outcome ==
    ExCalled =>
        /\ (ex_res.kind = "return") <=> ExReturnsExpected
        /\ ex_res.kind = "return" => ex_res.value = ex_call.out \o ex_call.err
        /\ (ex_res.kind = "TexTextCommandFailed")
                <=> (ex_call.launched /\ ~ExReturnsExpected)
        /\ (ex_call.launched /\ ex_call.ok = Some(0))
                => ((ex_res.kind = "TexTextCommandFailed") <=> ex_call.returncode # 0)

C8_Witness ==
    /\ ExCalled /\ ex_call.launched
    /\ ex_call.ok = Some(1) /\ ex_call.returncode = 1
    /\ ex_call.out # <<>> /\ ex_call.err # <<>>
    /\ ex_res.kind = "return"

-----------------------------------------------------------------------------
(* Properties of CycleBufferHandler, checked under SpecBuffer.             *)

\* the last n elements of seq
LastN(seq, n) == SubSeq(seq, Len(seq) - n + 1, Len(seq))

\* C2: the buffer holds at most capacity records, and they are the
\* min(n, capacity) records emitted last, in emission order.
C2_Bounded ==
    /\ Len(cb_buffer) <= cb_capacity
    /\ cb_buffer = LastN(cb_emitted, Min(Len(cb_emitted), cb_capacity))

-----------------------------------------------------------------------------
(* Properties of TexTextNestedLoggingGuard, checked under SpecLog.         *)

Done == <<" ", "d", "o", "n", "e">>
Failed == <<" ", "f", "a", "i", "l", "e", "d">>

\* the counter is twice the number of open scopes; a message logged inside
\* k open scopes, a header included, starts with 2*k spaces
C9_Indent ==
    /\ lg_indent = _MESSAGE_INDENT * Len(lg_stack)
    /\ lg_indent >= 0
    /\ lg_stack = <<>> => lg_indent = 0
    /\ lg_ev.kind = "message"
            => lg_last.text = Spaces(2 * Len(lg_stack)) \o lg_ev.message
    /\ lg_ev.kind = "open"
            => lg_last.text = Spaces(2 * (Len(lg_stack) - 1)) \o lg_ev.message

\* C9 as stated: the counter is 2 times the number of open scopes, a message
\* inside k scopes is prefixed by 2*k spaces, and the closing message is the
\* header followed by " done" or " failed", indented as the header was.
C9_Original ==
    /\ C9_Indent
    /\ lg_ev.kind = "close"
            => lg_last.text = Spaces(lg_ev.at) \o lg_ev.message
                                \o (IF lg_ev.exc THEN Failed ELSE Done)

\* C9 amended: the counter is 2 times the number of open scopes, a message
\* inside k scopes is prefixed by 2*k spaces, and the closing message is the
\* header with its leading and trailing whitespace stripped, followed by
\* " done" or " failed", prefixed by as many spaces as the header was.
C9_Stripped ==
    /\ C9_Indent
    /\ lg_ev.kind = "close"
            => lg_last.text = Spaces(lg_ev.at) \o Strip(lg_ev.message)
                                \o (IF lg_ev.exc THEN Failed ELSE Done)

C9_Witness ==
    /\ lg_ev.kind = "close" /\ lg_ev.exc
    /\ lg_ev.message = <<VT, "a", NBSP>>
    /\ Len(lg_stack) = 1
    /\ lg_last.text = <<" ", " ", "a", " ", "f", "a", "i", "l", "e", "d">>

-----------------------------------------------------------------------------
(* Properties of the directory scopes, checked under SpecDir.              *)

FsTmpStep(kind) == fs_ev.kind = kind /\ fs_ev.scope.kind = "tmp"

\* C5: when the block of a ChangeDirectory or ChangeToTemporaryDirectory
\* scope has ended, normally or by an exception, the working directory is
\* the one that was current immediately before the scope was entered.
C5_Restored ==
    /\ fs_ev.kind = "cd_exit" => fs_cwd = fs_ev.scope.entry_cwd
    /\ FsTmpStep("remove") => fs_cwd = fs_ev.scope.entry_cwd

FsTempScopes == {i \in 1 .. Len(fs_stack) : fs_stack[i].kind = "tmp"}

\* what C10 says of a ChangeToTemporaryDirectory scope whose entry succeeds:
\* the directory is created new, then becomes the working directory, exists
\* as long as the scope is open, is still there when the working directory
\* is changed back, is removed only then, is not the working directory when
\* it is removed, and is gone afterwards
C10_Order ==
    /\ FsTmpStep("create")
            => /\ fs_ev.scope.dir_name \notin fs_ev.dirs_before
               /\ fs_dirs = fs_ev.dirs_before \cup {fs_ev.scope.dir_name}
               /\ fs_cwd = fs_ev.cwd_before
    /\ fs_ev.kind = "tmp_chdir"
            => /\ fs_cwd = fs_ev.scope.dir_name
               /\ fs_dirs = fs_ev.dirs_before
               /\ fs_ev.cwd_before = fs_ev.scope.entry_cwd
    /\ \A i \in FsTempScopes : fs_stack[i].dir_name \in fs_dirs
    /\ fs_ev.kind = "tmp_restore"
            => /\ fs_cwd = fs_ev.scope.entry_cwd
               /\ fs_cwd # fs_ev.scope.dir_name
               /\ fs_ev.scope.dir_name \in fs_dirs
               /\ fs_dirs = fs_ev.dirs_before
    /\ FsTmpStep("remove")
            => /\ fs_ev.cwd_before # fs_ev.scope.dir_name
               /\ fs_cwd = fs_ev.cwd_before
               /\ fs_ev.scope.dir_name \in fs_ev.dirs_before
               /\ fs_dirs = fs_ev.dirs_before \ {fs_ev.scope.dir_name}

\* C10 as stated: on entry the new directory is created and then becomes the
\* working directory, and the rest of the lifecycle follows in order.
C10_Original ==
    /\ C10_Order
    /\ fs_ev.kind # "tmp_enter_raised"

\* C10 amended: when the working directory exists at entry, the new directory
\* is created and then becomes the working directory and the rest of the
\* lifecycle follows in order; when the working directory has been removed,
\* the entry raises after the new directory was created, the block does not
\* run, the working directory is not changed and the new directory is removed.
C10_Lifecycle ==
    /\ C10_Order
    /\ fs_ev.kind = "tmp_chdir" => fs_ev.cwd_before # NoCwd
    /\ fs_ev.kind = "tmp_enter_raised"
            => /\ fs_ev.cwd_before = NoCwd
               /\ fs_cwd = NoCwd
               /\ fs_raising
               /\ fs_ev.scope.phase = "closing"
    /\ (FsTmpStep("remove") /\ fs_ev.scope.old_dir = "None")
            => fs_ev.cwd_before = NoCwd /\ fs_raising

\* a nested temporary scope has ended by an exception inside an outer one
C10_Witness ==
    /\ FsTmpStep("remove")
    /\ fs_raising
    /\ fs_ev.scope.entry_cwd \in TempNames
    /\ fs_ev.scope.dir_name \notin fs_dirs
    /\ fs_cwd = fs_ev.scope.entry_cwd
    /\ Len(fs_stack) = 1

-----------------------------------------------------------------------------
(* Properties of Settings and Cache, checked under SpecStore.              *)

StLoaded == st_op.kind \in {"load", "Settings", "Cache"} /\ st_out.kind = "return"
StSavedKeys == IF st_saved.values.t = "dict" THEN DictKeys(st_saved.values) ELSE {}
StSavedValue(k) == DictGet(st_saved.values, k, PyNone)

\* s[k] and s.get(k) yield v
StReads(k, v) == getitem(st_values, k) = v /\ get(st_values, k, PyNone) = v

\* the last operation loaded the file that the last completed save() wrote
StReloaded == StLoaded /\ st_saved.done /\ st_op.path = st_saved.path

\* a tuple is stored by json.dump but is not a JSON value
StJsonCompatible(v) == v # PyTuple

\* C1 as stated: after save() and then load(), on the same object or on a new
\* one on the same path, s[k] and s.get(k) yield the saved value for every key
\* of the saved map that holds a JSON-compatible value.
C1_Original ==
    StReloaded
        => \A k \in StSavedKeys :
              StJsonCompatible(StSavedValue(k)) => StReads(k, StSavedValue(k))

\* no non-string key of the saved map is written to the file under the string k
StOwnJsonKey(k) == \A k2 \in StSavedKeys : JsonKey(k2) = k => k2 = k

\* C1 amended: after save() and then load(), on the same object or on a new
\* one on the same path, s[k] and s.get(k) yield the saved value (for a tuple,
\* the list of its elements) for every string key k of the saved map, provided
\* the map has no non-string key whose JSON form is k; a non-string key reads
\* back as None.
C1_RoundTrip ==
    StReloaded
        => \A k \in StSavedKeys :
              /\ (k.t = "str" /\ StOwnJsonKey(k))
                    => StReads(k, JsonValue(StSavedValue(k)))
              /\ k.t # "str" => StReads(k, PyNone)

\* a map of two string keys and the integer key 1, saved by one object, has
\* been read back by a new Settings object on the same path: "2" kept its
\* value, "1" took the value saved under 1, and 1 reads as None
C1_Witness ==
    /\ st_op.kind = "Settings" /\ st_out.kind = "return"
    /\ st_saved.done /\ st_saved.path = st_op.path
    /\ st_saved.values =
          Dict(<<Item(KeyStr1, PyNone), Item(KeyStr2, PyList), Item(KeyInt1, PyStrA)>>)
    /\ st_values = Dict(<<Item(KeyStr1, PyStrA), Item(KeyStr2, PyList)>>)

\* reachable: a map that holds a tuple has been saved and loaded again, and
\* the key of the tuple reads as a list
C1_TupleRead ==
    /\ StReloaded
    /\ st_saved.values = Dict(<<Item(KeyStr1, PyStrA), Item(KeyStr2, PyTuple)>>)
    /\ st_values = Dict(<<Item(KeyStr1, PyStrA), Item(KeyStr2, PyList)>>)

\* C6: when load fails during construction, Settings raises
\* TexTextFatalError, and Cache on the same file raises nothing and has an
\* empty map.
C6_LoadFailure ==
    /\ (st_op.kind = "Settings" /\ LoadRaises(st_file[st_op.path]) # "none")
            => st_out = Raise("TexTextFatalError")
    /\ (st_op.kind = "Cache" /\ LoadRaises(st_file[st_op.path]) # "none")
            => /\ st_out.kind = "return"
               /\ st_alive /\ st_path = st_op.path /\ st_values = EmptyDict

StOp(kind) == st_op'.kind = kind
StAllStrKeys(d) == \A k \in DictKeys(d) : k.t = "str"
StFile == st_file[st_path]
StOtherFiles == \A b \in Basenames \ {st_path} : st_file'[b] = st_file[b]

\* json.dump writes every value of the map as it reads back
StAllJsonValues(d) == \A i \in 1 .. Len(d.items) : StJsonCompatible(d.items[i].v)

\* what C7 says of __setitem__, get and __getitem__
C7_Accessors ==
    /\ (StOp("setitem") \/ StOp("get") \/ StOp("getitem")) => st_file' = st_file
    /\ (StOp("get") \/ StOp("getitem")) => st_values' = st_values

\* C7 as stated: __setitem__, get and __getitem__ leave the file unchanged,
\* get and __getitem__ leave the map unchanged, save leaves the map unchanged
\* and makes the file content equal to the whole map, load leaves the file
\* unchanged, replaces the map by the file content when the file exists and
\* leaves the map unchanged when it does not.
C7_Original ==
    [][ /\ C7_Accessors
        /\ StOp("save")
             => /\ st_values' = st_values
                /\ IsFile(st_file'[st_path])
                /\ LoadRaises(st_file'[st_path]) = "none"
                /\ JsonLoad(st_file'[st_path].doc) = st_values
        /\ StOp("load")
             => /\ st_file' = st_file
                /\ IsFile(StFile)
                     => st_out'.kind = "return" /\ st_values' = JsonLoad(StFile.doc)
                /\ ~IsFile(StFile) => st_values' = st_values
      ]_vars

\* C7 amended: __setitem__, get and __getitem__ leave the file unchanged, get
\* and __getitem__ leave the map unchanged; save leaves the map unchanged and,
\* when the file can be opened for writing, makes the file content the JSON
\* serialisation of the whole map, which reads back as the map itself when
\* all keys are strings and all values JSON values; when the file cannot be
\* opened for writing (it is read-only or its directory does not exist) save
\* raises and leaves the file as it was; load leaves the file unchanged,
\* replaces the whole map by the file content when the file holds JSON, raises
\* and leaves the map unchanged when the file exists but does not hold JSON,
\* and leaves the map unchanged when the file does not exist. No operation
\* touches a file of another basename.
C7_SyncPoints ==
    [][ /\ C7_Accessors
        /\ StOp("save")
             => /\ st_values' = st_values
                /\ StOtherFiles
                /\ StFile.kind \in {"missing", "corrupt", "json"}
                     => /\ st_out'.kind = "return"
                        /\ st_file'[st_path] = JsonFile(JsonDump(st_values))
                        /\ (st_values.t = "dict" /\ StAllStrKeys(st_values)
                                /\ StAllJsonValues(st_values))
                             => JsonLoad(st_file'[st_path].doc) = st_values
                /\ StFile.kind \in {"readonly", "nodir"}
                     => st_out'.kind = "raise" /\ st_file' = st_file
        /\ StOp("load")
             => /\ st_file' = st_file
                /\ StFile.kind \in {"json", "readonly"}
                     => st_out'.kind = "return" /\ st_values' = JsonLoad(StFile.doc)
                /\ StFile.kind = "corrupt"
                     => st_out'.kind = "raise" /\ st_values' = st_values
                /\ ~IsFile(StFile)
                     => st_out'.kind = "return" /\ st_values' = st_values
      ]_vars

\* the file of a constructed store is never one that open() refuses for
\* reading: every constructor raises on it
C7_LiveFiles == st_alive => StFile.kind # "noaccess"

\* save() has raised on a read-only file and left it as it was, with a map
\* that differs from the content of the file
C7_Witness ==
    /\ st_op.kind = "save" /\ st_out.kind = "raise"
    /\ StFile = ReadOnly(InitialDoc)
    /\ st_values = Dict(<<Item(KeyStr1, PyStrA), Item(KeyStr2, PyList)>>)

\* reachable: save() has raised because the directory does not exist
C7_SaveNoDir ==
    /\ st_op.kind = "save" /\ st_out.kind = "raise"
    /\ StFile.kind = "nodir"
    /\ st_values # EmptyDict

\* reachable: load() has replaced a map that held an unsaved key by the
\* content of the file
C7_LoadReplaced ==
    /\ st_op.kind = "load" /\ st_out.kind = "return"
    /\ st_saved.done /\ st_saved.path = st_path
    /\ st_sets = 2
    /\ StFile = JsonFile(Dict(<<Item(KeyStr1, PyStrA)>>))
    /\ st_values = Dict(<<Item(KeyStr1, PyStrA)>>)

\* reachable: load() has raised on a file that is not JSON and left the map
\* as it was
C7_LoadRaised ==
    /\ st_op.kind = "load" /\ st_out.kind = "raise"
    /\ StFile.kind = "corrupt"
    /\ st_values # EmptyDict

\* reachable: load() has replaced a map by a JSON array
C7_LoadedList ==
    /\ st_op.kind = "load" /\ st_out.kind = "return"
    /\ st_sets > 0
    /\ st_values = EmptyList

====
